---------------------------- MODULE Spec2Model ----------------------------
(***************************************************************************)
(* A model of the dngateway request gateway (src/gateway.js): the hostname *)
(* codec, the DNS status map, the backend parser defaults, the two-phase   *)
(* request classifier and the run_middleware orchestrator with its         *)
(* dispatch to redirect, HTTP proxy and websocket tunnel.                  *)
(*                                                                         *)
(* JavaScript strings are sequences of UTF-16 code units (integers).       *)
(***************************************************************************)
EXTENDS Integers, Sequences, FiniteSets, TLC

VARIABLES
  gateway,      \* the Gateway object's configuration fields (constructor)
  req,          \* the incoming request (host framework)
  pc,           \* position of the request in run_middleware's state machine
  info,         \* the GatewayRequestInfo of the request
  calls,        \* parser callbacks invoked so far, with what they returned
  filter_call,  \* how the request filter behaved, once it was invoked
  next_calls,   \* invocations of the framework's next, with their arguments
  res_log,      \* what the gateway wrote to the client response
  events,       \* 'error' and 'log' events emitted on the gateway
  upstream,     \* the upstream (proxy) request, once created
  returned,     \* the value run_middleware returned (its promise resolves to)
  thrown,       \* where an exception was raised while handling the request
  tunnel,       \* the client socket and the upstream socket of a websocket tunnel
  followed,     \* the redirect this request follows, when it follows one
  codec_pc,     \* position of the codec exercise
  codec_in,     \* the string handed to encode_hostname
  codec_enc,    \* encode_hostname's result
  codec_dec     \* decode_hostname's result

vars == <<gateway, req, pc, info, calls, filter_call, next_calls, res_log,
          events, upstream, returned, thrown, tunnel, followed,
          codec_pc, codec_in, codec_enc, codec_dec>>

gateway_vars == <<gateway, req, pc, info, calls, filter_call, next_calls,
                  res_log, events, upstream, returned, thrown, tunnel,
                  followed>>

codec_vars == <<codec_pc, codec_in, codec_enc, codec_dec>>

----------------------------------------------------------------------------
(* Strings *)

\* The code units of the characters the model writes literally.
charCodeAt ==
  "-" :> 45 @@ "." :> 46 @@ "/" :> 47 @@ "0" :> 48 @@ "1" :> 49 @@
  "2" :> 50 @@ "3" :> 51 @@ "4" :> 52 @@ "5" :> 53 @@ "6" :> 54 @@
  "7" :> 55 @@ "8" :> 56 @@ "9" :> 57 @@ ":" :> 58 @@ "?" :> 63 @@
  "_" :> 95 @@ "a" :> 97 @@ "b" :> 98 @@ "c" :> 99 @@ "e" :> 101 @@
  "g" :> 103 @@ "h" :> 104 @@ "k" :> 107 @@ "o" :> 111 @@ "p" :> 112 @@
  "q" :> 113 @@ "r" :> 114 @@ "s" :> 115 @@ "t" :> 116 @@ "w" :> 119 @@ "x" :> 120 @@
  "y" :> 121

\* The string whose characters are the one-character strings of t.
Str(t) == [i \in 1..Len(t) |-> charCodeAt[t[i]]]

\* JS null and undefined where a string is expected: no code unit is negative.
Null == <<0 - 1>>
Undefined == <<0 - 2>>

IsDigit(c) == c \in 48..57

\* \w of a JS regular expression without the u flag: [A-Za-z0-9_]
IsWordChar(c) == c \in (48..57) \cup (65..90) \cup (97..122) \cup {95}

\* String.prototype.endsWith
EndsWith(s, t) ==
  /\ Len(t) <= Len(s)
  /\ SubSeq(s, Len(s) - Len(t) + 1, Len(s)) = t

\* String.prototype.startsWith at (1-based) position i
MatchesAt(s, i, t) ==
  /\ i >= 1
  /\ i + Len(t) - 1 <= Len(s)
  /\ SubSeq(s, i, i + Len(t) - 1) = t

\* String.prototype.lastIndexOf, 0-based, -1 when there is no occurrence
MaxOr(at, none) ==
  IF at = {} THEN none ELSE CHOOSE i \in at : \A j \in at : j <= i

LastIndexOf(s, t) ==
  MaxOr({i \in 1..(Len(s) + 1) : MatchesAt(s, i, t)}, 0) - 1

\* String.prototype.indexOf, 0-based, -1 when there is no occurrence
MinOr(at, none) ==
  IF at = {} THEN none ELSE CHOOSE i \in at : \A j \in at : i <= j

IndexOf(s, t) ==
  MinOr({i \in 1..(Len(s) + 1) : MatchesAt(s, i, t)}, 0) - 1

\* String.prototype.substr(start, length) with 0 <= start; a negative length
\* gives the empty string
Substr(s, start, length) ==
  IF length <= 0 \/ start >= Len(s) THEN <<>>
  ELSE SubSeq(s, start + 1, IF start + length > Len(s) THEN Len(s) ELSE start + length)

\* String.prototype.substr(start)
SubstrFrom(s, start) == Substr(s, start, Len(s))

\* Number.prototype.toString() of a non-negative integer
RECURSIVE ToDecimal(_)
ToDecimal(n) ==
  IF n < 10 THEN <<48 + n>> ELSE ToDecimal(n \div 10) \o <<48 + (n % 10)>>

\* String.prototype.padStart(width, '0')
RECURSIVE PadStart0(_, _)
PadStart0(s, width) ==
  IF Len(s) >= width THEN s ELSE PadStart0(<<48>> \o s, width)

\* parseInt of a string of decimal digits
RECURSIVE ParseInt(_)
ParseInt(s) ==
  IF s = <<>> THEN 0
  ELSE 10 * ParseInt(SubSeq(s, 1, Len(s) - 1)) + (s[Len(s)] - 48)

----------------------------------------------------------------------------
(* Hostname codec *)

\* The replacement callback of encode_hostname: `.e${code padded to 3}.`
EncodeChar(c) == Str(<<".", "e">>) \o PadStart0(ToDecimal(c), 3) \o Str(<<".">>)

\* /[^\w.-]/ : the characters encode_hostname replaces
IsEscaped(c) == ~(IsWordChar(c) \/ c = 46 \/ c = 45)

RECURSIVE encode_hostname(_)
encode_hostname(target_path) ==
  IF target_path = <<>> THEN <<>>
  ELSE (IF IsEscaped(Head(target_path)) THEN EncodeChar(Head(target_path))
        ELSE <<Head(target_path)>>)
       \o encode_hostname(Tail(target_path))

\* /[.]e[0-9]{3}[.]/ matches at (1-based) position i of s
SentinelAt(s, i) ==
  /\ i + 5 <= Len(s)
  /\ s[i] = 46
  /\ s[i + 1] = 101
  /\ IsDigit(s[i + 2]) /\ IsDigit(s[i + 3]) /\ IsDigit(s[i + 4])
  /\ s[i + 5] = 46

\* String.replace with a global regular expression: leftmost matches, taken
\* left to right, never overlapping.
RECURSIVE DecodeFrom(_, _)
DecodeFrom(s, i) ==
  IF i > Len(s) THEN <<>>
  ELSE IF SentinelAt(s, i)
       THEN <<ParseInt(SubSeq(s, i + 2, i + 4))>> \o DecodeFrom(s, i + 6)
       ELSE <<s[i]>> \o DecodeFrom(s, i + 1)

decode_hostname(hostname) == DecodeFrom(hostname, 1)

----------------------------------------------------------------------------
(* DNS status map *)

\* The error tokens of Node's dns module that the map names.
dns == [NOTFOUND |-> "ENOTFOUND", REFUSED |-> "EREFUSED",
        CANCELLED |-> "ECANCELLED", CONNREFUSED |-> "ECONNREFUSED"]

\* Mutant: the CONNREFUSED case is missing from the switch.
map_dns_status_without_CONNREFUSED(dns_error_Code) ==
  CASE dns_error_Code = dns.NOTFOUND -> 404
    [] dns_error_Code \in {dns.REFUSED, dns.CANCELLED} -> 403
    [] OTHER -> 500

map_dns_status_to_http_code(dns_error_Code) ==
  CASE dns_error_Code = dns.NOTFOUND -> 404
    [] dns_error_Code \in {dns.REFUSED, dns.CANCELLED, dns.CONNREFUSED} -> 403
    [] OTHER -> 500

----------------------------------------------------------------------------
(* URL objects (new URL(...), its getters and its protocol setter) *)

\* JS values a callback can hand back where a URL is expected.
JSNull == [kind |-> "null"]
JSUndefined == [kind |-> "undefined"]
JSString(s) == [kind |-> "string", s |-> s]
MakeURL(protocol, hostname, port, pathname, search) ==
  [kind |-> "URL", protocol |-> protocol, hostname |-> hostname, port |-> port,
   pathname |-> pathname, search |-> search]

\* Mutant: v === undefined, so that null is no longer "no backend".
IsUndefinedOnly(v) == v.kind = "undefined"

\* v == null (loose equality: null and undefined)
IsNullish(v) == v.kind \in {"null", "undefined"}

HTTP == Str(<<"h", "t", "t", "p">>)
HTTPS == Str(<<"h", "t", "t", "p", "s">>)
WS == Str(<<"w", "s">>)
WSS == Str(<<"w", "s", "s">>)

\* The special schemes the model meets, and their default ports.
SpecialSchemes == {HTTP, HTTPS, WS, WSS}
DefaultPort(scheme) ==
  IF scheme \in {HTTP, WS} THEN Str(<<"8", "0">>) ELSE Str(<<"4", "4", "3">>)

\* Code units a host may not hold (forbidden host and domain code points).
ForbiddenHostChars ==
  (0..32) \cup {35, 37, 47, 58, 60, 62, 63, 64, 91, 92, 93, 94, 124, 127}

\* The position (1-based) of the first code unit of s at or after i that is
\* in set, or Len(s) + 1.
RECURSIVE FirstIn(_, _, _)
FirstIn(s, i, set) ==
  IF i > Len(s) \/ s[i] \in set THEN i ELSE FirstIn(s, i + 1, set)

\* The position of the first code unit of s at or after i that is not c.
RECURSIVE SkipAll(_, _, _)
SkipAll(s, i, c) ==
  IF i > Len(s) \/ s[i] /= c THEN i ELSE SkipAll(s, i + 1, c)

\* new URL(s) for an absolute URL with a special scheme, a lower-case domain
\* name as host, no credentials and no fragment: [ok, url]; ok = FALSE is the
\* TypeError new URL throws. The slashes after the scheme are skipped however
\* many there are; a port that is the scheme's default is dropped; an empty
\* path is "/"; an empty query gives an empty search.
URLFailure == [ok |-> FALSE, url |-> JSUndefined]

URLFromParts(scheme, hostname, port_text, path, query) ==
  IF \/ scheme \notin SpecialSchemes
     \/ hostname = <<>>
     \/ \E i \in 1..Len(hostname) : hostname[i] \in ForbiddenHostChars
     \/ \E i \in 1..Len(port_text) : ~IsDigit(port_text[i])
     \/ (port_text /= <<>> /\ ParseInt(port_text) > 65535)
  THEN URLFailure
  ELSE [ok |-> TRUE,
        url |-> MakeURL(scheme \o <<58>>,
                        hostname,
                        IF port_text = <<>> \/ ToDecimal(ParseInt(port_text)) = DefaultPort(scheme)
                        THEN <<>> ELSE ToDecimal(ParseInt(port_text)),
                        IF path = <<>> THEN <<47>> ELSE path,
                        IF Len(query) <= 1 THEN <<>> ELSE query)]

\* The authority splits at its last ':' into host and port, the rest at its
\* first '?' into path and query.
URLFromAuthority(scheme, authority, port_colon, rest, query_at) ==
  URLFromParts(scheme,
               IF port_colon = 0 - 1 THEN authority ELSE Substr(authority, 0, port_colon),
               IF port_colon = 0 - 1 THEN <<>> ELSE SubstrFrom(authority, port_colon + 1),
               SubSeq(rest, 1, query_at - 1),
               SubSeq(rest, query_at, Len(rest)))

\* after holds what follows the scheme and its slashes; the authority ends
\* before position auth_to of it.
URLAfterScheme(scheme, after, auth_to) ==
  URLFromAuthority(scheme,
                   SubSeq(after, 1, auth_to - 1),
                   LastIndexOf(SubSeq(after, 1, auth_to - 1), <<58>>),
                   SubSeq(after, auth_to, Len(after)),
                   FirstIn(SubSeq(after, auth_to, Len(after)), 1, {63}))

URLAfterColon(scheme, after) ==
  URLAfterScheme(scheme, after, FirstIn(after, 1, {47, 63}))

URLWithColonAt(s, colon) ==
  IF colon = 0 - 1 THEN URLFailure
  ELSE URLAfterColon(Substr(s, 0, colon),
                     SubSeq(s, SkipAll(s, colon + 2, 47), Len(s)))

ParseURL(s) == URLWithColonAt(s, IndexOf(s, <<58>>))

\* url.host: the hostname, then ':' and the port when the port is not the
\* scheme's default
URLHost(url) ==
  IF url.port = <<>> THEN url.hostname ELSE url.hostname \o <<58>> \o url.port

\* url.protocol = value, for a url with a special scheme: the scheme is
\* replaced when value names a special scheme (a trailing ':' is accepted),
\* and a port that is the new scheme's default is dropped.
SetScheme(url, scheme) ==
  IF scheme \notin SpecialSchemes THEN url
  ELSE [url EXCEPT !.protocol = scheme \o <<58>>,
                   !.port = IF url.port = DefaultPort(scheme) THEN <<>>
                            ELSE url.port]

SchemeOf(value, colon) ==
  IF colon = 0 - 1 THEN value ELSE Substr(value, 0, colon)

URLSetProtocol(url, value) ==
  SetScheme(url, SchemeOf(value, IndexOf(value, <<58>>)))

\* url.pathname = value, for a url with a special scheme: its path is never
\* empty and starts with '/'.
URLSetPathname(url, value) ==
  [url EXCEPT !.pathname = IF value = <<>> \/ Head(value) /= 47
                           THEN <<47>> \o value ELSE value]

----------------------------------------------------------------------------
(* Backend parser: the four callbacks and their defaults *)

\* A slot of GatewayBackendParser.invoke_methods as one request sees it:
\* impl = "default" when the slot is null, otherwise the supplied callback,
\* which throws or returns ret.
DefaultCallback(none) == [impl |-> "default", threw |-> FALSE, ret |-> none]
CustomReturns(v) == [impl |-> "custom", threw |-> FALSE, ret |-> v]
CustomThrows(none) == [impl |-> "custom", threw |-> TRUE, ret |-> none]

\* What a callback did: [called, impl, threw, ret]
NotCalled(none) == [called |-> FALSE, impl |-> "default", threw |-> FALSE, ret |-> none]
Outcome(cb, threw, ret) ==
  [called |-> TRUE, impl |-> cb.impl, threw |-> threw, ret |-> ret]

\* The default implementations build their URL with new URL(...).
ParsedOutcome(cb, parsed) == Outcome(cb, ~parsed.ok, parsed.url)

parse_url_from_id(cb, target_id) ==
  IF cb.impl = "custom" THEN Outcome(cb, cb.threw, cb.ret)
  ELSE ParsedOutcome(cb, ParseURL(req.protocol \o Str(<<":", "/", "/">>)
                                  \o target_id \o req.originalUrl))

parse_url_from_route(cb) ==
  IF cb.impl = "custom" THEN Outcome(cb, cb.threw, cb.ret)
  ELSE ParsedOutcome(cb, ParseURL(req.protocol \o Str(<<":", "/", "/">>)
                                  \o SubstrFrom(req.originalUrl, Len(req.baseUrl))))

\* if (gateway.force_http && target_protocol == 'https') target_protocol = 'http'
ForceHttp(target_protocol) ==
  IF gateway.force_http /\ target_protocol = HTTPS THEN HTTP ELSE target_protocol

parse_protocol(cb) ==
  IF cb.impl = "custom" THEN Outcome(cb, cb.threw, cb.ret)
  ELSE Outcome(cb, FALSE,
               ForceHttp(IF gateway.force_protocol /= Null
                         THEN gateway.force_protocol ELSE req.protocol))

parse_method(cb) ==
  IF cb.impl = "custom" THEN Outcome(cb, cb.threw, cb.ret)
  ELSE Outcome(cb, FALSE, req.method)

----------------------------------------------------------------------------
(* Request classifier *)

\* new GatewayRequestInfo()
GatewayRequestInfo ==
  [is_gateway_intercept |-> FALSE, is_gateway_host |-> FALSE,
   is_websocket_request |-> FALSE, target_id |-> Null,
   gateway_domain_postfix |-> Null, target_method |-> "null",
   backend_url |-> JSNull]

\* `.${this.gateway_subdomain}.`
SubdomainPrefix == <<46>> \o gateway.gateway_subdomain \o <<46>>

\* Mutant: the whole Host header is taken as the gateway host.
AutoDetectWholeHost(host, last_index) == host

\* The auto-detected gateway host: what follows the last subdomain_prefix of
\* the Host header, or the whole header.
AutoDetect(host, last_index) ==
  IF last_index = 0 - 1 THEN host
  ELSE SubstrFrom(host, last_index + Len(SubdomainPrefix))

\* get_gateway_host(req): [threw, host]; it throws when the gateway host is
\* auto-detected and the request has no Host header.
get_gateway_host ==
  IF gateway.gateway_host /= Null
  THEN [threw |-> FALSE, host |-> gateway.gateway_host]
  ELSE IF req.headers.host = Undefined
  THEN [threw |-> TRUE, host |-> Undefined]
  ELSE [threw |-> FALSE,
        host |-> AutoDetect(req.headers.host,
                            LastIndexOf(req.headers.host, SubdomainPrefix))]

\* _parse_request_core_info(parser, info, req): [threw, info, id_call],
\* statement by statement.
CoreInfo(threw, i, id_call) == [threw |-> threw, info |-> i, id_call |-> id_call]

\* info.backend_url = parser.parse_url_from_id(this, req, info.target_id)
CoreInfoWithUrl(i, id_call) ==
  IF id_call.threw THEN CoreInfo(TRUE, i, id_call)
  ELSE CoreInfo(FALSE, [i EXCEPT !.backend_url = id_call.ret], id_call)

\* req_host.substr(0, req_host.length - info.gateway_domain_postfix.length - 1)
HostPrefix(req_host, postfix) ==
  Substr(req_host, 0, Len(req_host) - Len(postfix) - 1)

\* if (info.is_gateway_host) { info.target_id = decode_hostname(...); ... }
CoreInfoClassified(cb_id, i, target_id) ==
  IF ~i.is_gateway_host THEN CoreInfo(FALSE, i, NotCalled(JSUndefined))
  ELSE CoreInfoWithUrl([i EXCEPT !.target_id = target_id],
                       parse_url_from_id(cb_id, target_id))

\* info.is_gateway_host and info.is_websocket_request; endsWith throws when
\* the request has no Host header.
CoreInfoWithPostfix(cb_id, i, req_host) ==
  IF req_host = Undefined THEN CoreInfo(TRUE, i, NotCalled(JSUndefined))
  ELSE CoreInfoClassified(
         cb_id,
         [i EXCEPT !.is_gateway_host = EndsWith(req_host, i.gateway_domain_postfix),
                   !.is_websocket_request =
                      \/ req.headers.sec_websocket_protocol /= "undefined"
                      \/ req.headers.upgrade = "websocket"],
         decode_hostname(HostPrefix(req_host, i.gateway_domain_postfix)))

\* info.gateway_domain_postfix = this.gateway_subdomain + '.' + get_gateway_host(req)
CoreInfoWithHost(cb_id, i, gh) ==
  IF gh.threw THEN CoreInfo(TRUE, i, NotCalled(JSUndefined))
  ELSE CoreInfoWithPostfix(
         cb_id,
         [i EXCEPT !.gateway_domain_postfix =
                      gateway.gateway_subdomain \o <<46>> \o gh.host],
         req.headers.host)

_parse_request_core_info(cb_id, info0) == CoreInfoWithHost(cb_id, info0, get_gateway_host)

\* info.backend_url instanceof URL ? info.backend_url : new URL(info.backend_url)
\* (new URL(null) and new URL(undefined) parse the words and throw)
CoerceURL(v) ==
  IF v.kind = "URL" THEN [ok |-> TRUE, url |-> v]
  ELSE IF v.kind = "string" THEN ParseURL(v.s)
  ELSE URLFailure

\* info.target_id || info.backend_url.host
TargetIdOr(target_id, host) ==
  IF target_id = Null \/ target_id = <<>> THEN host ELSE target_id

DOT_WEBSOCKET == Str(<<"/", ".", "w", "e", "b", "s", "o", "c", "k", "e", "t">>)

\* pathname.replace(/\/[.]websocket$/, '')
StripWebsocketSuffix(pathname) ==
  IF EndsWith(pathname, DOT_WEBSOCKET)
  THEN SubSeq(pathname, 1, Len(pathname) - Len(DOT_WEBSOCKET))
  ELSE pathname

\* _parse_request_intercept_info(parser, info, req):
\* [threw, info, route_call, method_call, protocol_call], statement by
\* statement.
InterceptInfo(threw, i, route_call, method_call, protocol_call) ==
  [threw |-> threw, info |-> i, route_call |-> route_call,
   method_call |-> method_call, protocol_call |-> protocol_call]

\* Mutant: the suffix is stripped for every request.
StripWebsocketAlways(i) ==
  [i EXCEPT !.backend_url =
              URLSetPathname(@, StripWebsocketSuffix(i.backend_url.pathname))]

\* if (info.is_websocket_request) info.backend_url.pathname = (stripped)
StripWebsocket(i) ==
  IF i.is_websocket_request
  THEN [i EXCEPT !.backend_url =
                    URLSetPathname(@, StripWebsocketSuffix(i.backend_url.pathname))]
  ELSE i

\* info.backend_url.protocol = parser.parse_protocol(this, req)
InterceptWithProtocol(i, route_call, method_call, protocol_call) ==
  IF protocol_call.threw
  THEN InterceptInfo(TRUE, i, route_call, method_call, protocol_call)
  ELSE InterceptInfo(
         FALSE,
         StripWebsocket([i EXCEPT !.backend_url =
                                    URLSetProtocol(@, protocol_call.ret)]),
         route_call, method_call, protocol_call)

\* info.target_method = parser.parse_method(this, req)
InterceptWithMethod(cb_protocol, i, route_call, method_call) ==
  IF method_call.threw
  THEN InterceptInfo(TRUE, i, route_call, method_call, NotCalled(Undefined))
  ELSE InterceptWithProtocol([i EXCEPT !.target_method = method_call.ret],
                             route_call, method_call, parse_protocol(cb_protocol))

\* the coercion to a URL object and the default of info.target_id
InterceptCoerced(cb_method, cb_protocol, i, route_call, coerced) ==
  IF ~coerced.ok
  THEN InterceptInfo(TRUE, i, route_call, NotCalled("undefined"), NotCalled(Undefined))
  ELSE InterceptWithMethod(
         cb_protocol,
         [i EXCEPT !.backend_url = coerced.url,
                   !.target_id = TargetIdOr(@, URLHost(coerced.url))],
         route_call, parse_method(cb_method))

\* if (info.backend_url == null) info.is_gateway_intercept = false; else ...
InterceptWithUrl(cb_method, cb_protocol, i, route_call) ==
  IF IsNullish(i.backend_url)
  THEN InterceptInfo(FALSE, [i EXCEPT !.is_gateway_intercept = FALSE], route_call,
                     NotCalled("undefined"), NotCalled(Undefined))
  ELSE InterceptCoerced(cb_method, cb_protocol, i, route_call, CoerceURL(i.backend_url))

\* info.backend_url = parser.parse_url_from_route(this, req)
InterceptWithRoute(cb_method, cb_protocol, i, route_call) ==
  IF route_call.threw
  THEN InterceptInfo(TRUE, i, route_call, NotCalled("undefined"), NotCalled(Undefined))
  ELSE InterceptWithUrl(cb_method, cb_protocol,
                        IF route_call.called
                        THEN [i EXCEPT !.backend_url = route_call.ret] ELSE i,
                        route_call)

_parse_request_intercept_info(cb_route, cb_method, cb_protocol, info0) ==
  InterceptWithRoute(cb_method, cb_protocol,
                     [info0 EXCEPT !.is_gateway_intercept = TRUE],
                     IF info0.is_gateway_host /= TRUE
                     THEN parse_url_from_route(cb_route)
                     ELSE NotCalled(JSUndefined))

----------------------------------------------------------------------------
(* Gateway: events, responses, upstream requests *)

\* this.emit('error', err) and this.emit('log', level, ...), tagged with the
\* function that emits.
ErrorEvent(at) == [event |-> "error", level |-> "-", at |-> at]
LogEvent(level, at) == [event |-> "log", level |-> level, at |-> at]

\* Invocations of the framework's next: who called it and with what.
NoError == [code |-> 0, statusCode |-> 0, originalCode |-> "-"]
NextCall(by, args, err) == [by |-> by, args |-> args, err |-> err]

\* What next returns to its caller: the result of the k-th invocation.
JSReturnUndefined == [kind |-> "undefined", call |-> 0]
NextResult(k) == [kind |-> "next_result", call |-> k]

\* Writes to the client response.
SendStatus(status, at) ==
  [kind |-> "sendStatus", status |-> status, location |-> <<>>, at |-> at]
Redirect(location) ==
  [kind |-> "redirect", status |-> 302, location |-> location, at |-> "run_middleware"]

NoUpstream == [state |-> "none", error_code |-> "-", response |-> "none"]

\* A request that follows no redirect.
NotFollowed == [done |-> FALSE, target_id |-> Null, location |-> <<>>]

\* http.request / https.request throw ERR_INVALID_PROTOCOL when
\* options.protocol is not the protocol of the module's agent.
AgentProtocol(transport) ==
  IF transport = "https" THEN HTTPS \o <<58>> ELSE HTTP \o <<58>>

\* The transport create_proxy_request selects by info.backend_url.protocol.
SelectTransport(protocol) ==
  IF protocol \in {WSS \o <<58>>, HTTPS \o <<58>>} THEN "https" ELSE "http"

\* Mutant: the Host header is never reset.
ForwardedHostKept(host, backend_host) == host

\* (options.headers.host || '').endsWith(info.backend_url.host) ? null : host
ForwardedHost(host, backend_host) ==
  IF EndsWith(IF host = Undefined THEN <<>> ELSE host, backend_host)
  THEN Null ELSE host

\* The options create_proxy_request builds from info and the request headers.
RequestOptions(i) ==
  [method |-> i.target_method,
   protocol |-> i.backend_url.protocol,
   hostname |-> i.backend_url.hostname,
   port |-> i.backend_url.port,
   path |-> i.backend_url.pathname \o i.backend_url.search,
   headers |-> [req.headers EXCEPT
                  !.host = ForwardedHost(@, URLHost(i.backend_url))]]

\* create_proxy_request(req, res, next, info): [threw, request]. The request
\* call throws for a protocol its agent does not speak and whenever the
\* options are otherwise rejected (request_rejected).
create_proxy_request(i, request_rejected) ==
  IF \/ request_rejected
     \/ i.backend_url.protocol /= AgentProtocol(SelectTransport(i.backend_url.protocol))
  THEN [threw |-> TRUE, request |-> NoUpstream]
  ELSE [threw |-> FALSE,
        request |-> [state |-> "open", error_code |-> "-", response |-> "none",
                     transport |-> SelectTransport(i.backend_url.protocol),
                     websocket |-> i.is_websocket_request,
                     options |-> RequestOptions(i)]]

\* Mutant: the target id goes into the Location without encode_hostname.
get_gateway_host_redirect_unencoded(i) ==
  i.backend_url.protocol \o Str(<<"/", "/">>) \o i.target_id
    \o <<46>> \o gateway.gateway_subdomain \o <<46>> \o get_gateway_host.host
    \o i.backend_url.pathname \o i.backend_url.search

\* get_gateway_host_redirect(req, info)
get_gateway_host_redirect(i) ==
  i.backend_url.protocol \o Str(<<"/", "/">>) \o encode_hostname(i.target_id)
    \o <<46>> \o gateway.gateway_subdomain \o <<46>> \o get_gateway_host.host
    \o i.backend_url.pathname \o i.backend_url.search

\* Mutant: err.statusCode is not set to the mapped status.
ForwardedErrorStatus500(status, originalCode) ==
  [code |-> status, statusCode |-> 500, originalCode |-> originalCode]

\* err.code = status; err.statusCode = status; err.originalCode = originalCode
ForwardedError(status, originalCode) ==
  [code |-> status, statusCode |-> status, originalCode |-> originalCode]

\* _handle_proxy_request_error: err.code || '[unknown]'
OriginalCode(code) ==
  IF code \in {"undefined", "null", ""} THEN "[unknown]" ELSE code

----------------------------------------------------------------------------
(* The requests, configurations and callback behaviours explored *)

GATEWAY_PROXY ==
  Str(<<"g", "a", "t", "e", "w", "a", "y", "-", "p", "r", "o", "x", "y">>)

\* Gateway constructor options: gateway_host unset or set, the default
\* gateway_subdomain, force_protocol unset or set, force_http either way.
Gateways ==
  [gateway_host : {Null, Str(<<"h">>)},
   gateway_subdomain : {GATEWAY_PROXY},
   force_protocol : {Null, HTTPS, WS, WSS},
   force_http : BOOLEAN]

\* Host headers: the gateway's own host (route mode), a host that encodes the
\* target "b:8" (host mode), no Host header at all, the subdomain with no
\* label before it, and a host that holds the subdomain twice.
Hosts ==
  {Str(<<"h">>),
   Str(<<"b", ".", "e", "0", "5", "8", ".", "8", ".">>) \o GATEWAY_PROXY \o Str(<<".", "h">>),
   Undefined,
   GATEWAY_PROXY \o Str(<<".", "h">>),
   Str(<<"b", ".">>) \o GATEWAY_PROXY \o Str(<<".", "c", ".">>) \o GATEWAY_PROXY
     \o Str(<<".", "h">>)}

Requests ==
  [protocol : {HTTP, HTTPS},
   method : {"GET"},
   originalUrl : {Str(<<"/", "x", "?", "q">>)},
   baseUrl : {<<>>},
   headers : [host : Hosts,
              upgrade : {"undefined", "websocket"},
              sec_websocket_protocol : {"undefined", "chat"}]]

\* What a supplied parse_url_from_route may hand back: null, undefined, a URL
\* object, a URL string, a string that is no URL; or it throws.
RouteCallbacks ==
  {DefaultCallback(JSUndefined), CustomThrows(JSUndefined),
   CustomReturns(JSNull), CustomReturns(JSUndefined),
   CustomReturns(MakeURL(HTTP \o <<58>>, Str(<<"b">>), Str(<<"8">>),
                         Str(<<"/", "x">>), Str(<<"?", "q">>))),
   CustomReturns(JSString(Str(<<"h", "t", "t", "p", "s", ":", "/", "/", "b", ":",
                                "8", "0", "/", "y">>))),
   CustomReturns(JSString(<<>>)),
   CustomReturns(MakeURL(HTTP \o <<58>>, Str(<<"b">>), <<>>,
                         Str(<<"/", "a">>) \o DOT_WEBSOCKET \o DOT_WEBSOCKET,
                         Str(<<"?", "q">>)))}

IdCallbacks ==
  {DefaultCallback(JSUndefined), CustomThrows(JSUndefined), CustomReturns(JSNull),
   CustomReturns(MakeURL(HTTP \o <<58>>, Str(<<"c">>), <<>>, Str(<<"/">>), <<>>)),
   CustomReturns(MakeURL(HTTP \o <<58>>, Str(<<"h">>), <<>>, DOT_WEBSOCKET, <<>>))}

\* A supplied parse_method throws or returns null.
MethodCallbacks ==
  {DefaultCallback("undefined"), CustomThrows("undefined"), CustomReturns("null")}

ProtocolCallbacks ==
  {DefaultCallback(Undefined), CustomThrows(Undefined), CustomReturns(WSS)}

\* The request filter as one request sees it: absent, or it may call the next
\* handed to it (with or without an argument) and then throws or returns.
FilterReturns == {"false", "true", "undefined", "null", "0", "", "object"}
NoFilter ==
  [present |-> FALSE, calls_next |-> FALSE, next_args |-> "none",
   threw |-> FALSE, ret |-> "undefined"]
Filters ==
  {NoFilter}
  \cup {[present |-> TRUE, calls_next |-> FALSE, next_args |-> "none",
         threw |-> t, ret |-> r] :
          t \in {FALSE}, r \in FilterReturns}
  \cup {[present |-> TRUE, calls_next |-> FALSE, next_args |-> "none",
         threw |-> TRUE, ret |-> "undefined"]}
  \cup {[present |-> TRUE, calls_next |-> TRUE, next_args |-> a,
         threw |-> FALSE, ret |-> r] :
          a \in {"none", "value"}, r \in FilterReturns}
  \cup {[present |-> TRUE, calls_next |-> TRUE, next_args |-> a,
         threw |-> TRUE, ret |-> "undefined"] : a \in {"none", "value"}}

\* err.code of an upstream 'error': dns and socket tokens, or no code.
ErrorCodes ==
  {"ENOTFOUND", "EREFUSED", "ECANCELLED", "ECONNREFUSED", "ECONNRESET", "undefined"}

\* err.code of an 'error' after the 'response' event: the name was resolved
\* and the connection made, so the socket tokens or no code.
MidStreamErrorCodes == {"ECONNRESET", "undefined"}

----------------------------------------------------------------------------
(* run_middleware *)

NoCalls ==
  [parse_url_from_id |-> NotCalled(JSUndefined),
   parse_url_from_route |-> NotCalled(JSUndefined),
   parse_method |-> NotCalled("undefined"),
   parse_protocol |-> NotCalled(Undefined)]

\* The catch block of run_middleware, for an exception raised at `at`.
Catch(at) ==
  /\ thrown' = at
  /\ events' = events \o <<ErrorEvent("run_middleware"), LogEvent("ERROR", "run_middleware")>>
  /\ res_log' = Append(res_log, SendStatus(500, "run_middleware"))
  /\ returned' = JSReturnUndefined
  /\ pc' = "ERROR"

\* Mutant: the filter's verdict is not looked at.
IsAllowedWhateverReturned(f) == TRUE

\* Mutant: the filter's return value is tested for truthiness.
IsAllowedTruthy(f) ==
  IF f.present THEN f.ret \in {"true", "object"} ELSE TRUE

\* request_filter(...) === false ? false : true, with no filter: true
IsAllowed(f) ==
  IF f.present THEN (IF f.ret = "false" THEN FALSE ELSE TRUE) ELSE TRUE

\* ENTRY -> CLASSIFIED: new GatewayRequestInfo() and _parse_request_core_info
Classify ==
  /\ pc = "ENTRY"
  /\ \E cb_id \in IdCallbacks :
       \E r \in {_parse_request_core_info(cb_id, GatewayRequestInfo)} :
          /\ info' = r.info
          /\ calls' = [calls EXCEPT !.parse_url_from_id = r.id_call]
          /\ IF r.threw
             THEN Catch("_parse_request_core_info")
             ELSE /\ pc' = "CLASSIFIED"
                  /\ UNCHANGED <<events, res_log, returned, thrown>>
  /\ UNCHANGED <<gateway, req, filter_call, next_calls, upstream, tunnel, followed, codec_vars>>

\* next_with_override: what the filter's use of the next handed to it adds
\* to the invocations of the framework's next.
next_with_override(f, calls_so_far) ==
  IF f.present /\ f.calls_next
  THEN Append(calls_so_far, NextCall("filter", f.next_args, NoError))
  ELSE calls_so_far

\* Mutant: next() is invoked without looking at is_next_override.
PassNextAlways(calls_so_far, is_next_override) ==
  [next_calls |-> Append(calls_so_far, NextCall("run_middleware", "none", NoError)),
   returned |-> NextResult(Len(calls_so_far) + 1)]

\* if (!is_next_override) return next(); else return next_override_result:
\* the invocations of next after it, and the value returned.
PassNext(calls_so_far, is_next_override) ==
  IF ~is_next_override
  THEN [next_calls |-> Append(calls_so_far, NextCall("run_middleware", "none", NoError)),
        returned |-> NextResult(Len(calls_so_far) + 1)]
  ELSE [next_calls |-> calls_so_far, returned |-> NextResult(Len(calls_so_far))]

\* CLASSIFIED -> FILTERED | PASS: the filter call and the check of its verdict
Filter ==
  /\ pc = "CLASSIFIED"
  /\ \E f \in Filters :
     \E is_next_override \in {f.present /\ f.calls_next} :
     \E after_filter \in {next_with_override(f, next_calls)} :
          /\ filter_call' = f
          /\ IF f.present /\ f.threw
             THEN /\ next_calls' = after_filter
                  /\ Catch("request_filter")
             ELSE IF ~IsAllowed(f) \/ is_next_override
             THEN /\ next_calls' = PassNext(after_filter, is_next_override).next_calls
                  /\ returned' = PassNext(after_filter, is_next_override).returned
                  /\ pc' = "PASS"
                  /\ UNCHANGED <<events, res_log, thrown>>
             ELSE /\ pc' = "FILTERED"
                  /\ UNCHANGED <<next_calls, events, res_log, returned, thrown>>
  /\ UNCHANGED <<gateway, req, info, calls, upstream, tunnel, followed, codec_vars>>

\* create_websocket_proxy(req, res, next, info): the upstream request is
\* created inside its own try block, whose catch emits and returns.
create_websocket_proxy(i, request_rejected) ==
  \E created \in {create_proxy_request(i, request_rejected)} :
     /\ upstream' = created.request
     /\ events' = events
          \o <<LogEvent("INFO", "run_middleware")>>
          \o (IF created.threw
              THEN <<ErrorEvent("create_websocket_proxy"),
                     LogEvent("ERROR", "create_websocket_proxy")>>
              ELSE <<>>)
     /\ thrown' = (IF created.threw THEN "create_websocket_proxy" ELSE thrown)
     /\ pc' = "WEBSOCKET"
     /\ returned' = JSReturnUndefined
     /\ UNCHANGED <<res_log, next_calls>>

\* send_proxy_request(req, res, next, info): an exception of the request call
\* reaches run_middleware's catch.
send_proxy_request(i, request_rejected) ==
  \E created \in {create_proxy_request(i, request_rejected)} :
     IF created.threw
     THEN Catch("send_proxy_request") /\ UNCHANGED <<upstream, next_calls>>
     ELSE /\ upstream' = created.request
          /\ pc' = "PROXY"
          /\ returned' = JSReturnUndefined
          /\ UNCHANGED <<events, res_log, next_calls, thrown>>

\* res.redirect(this.get_gateway_host_redirect(req, info))
SendRedirect(i) ==
  /\ events' = Append(events, LogEvent("INFO", "run_middleware"))
  /\ res_log' = Append(res_log, Redirect(get_gateway_host_redirect(i)))
  /\ pc' = "REDIRECT"
  /\ returned' = JSReturnUndefined
  /\ UNCHANGED <<upstream, next_calls, thrown>>

\* Mutant: the redirect check comes before the websocket check.
BranchRedirectFirst(i) ==
  IF ~i.is_gateway_host THEN "REDIRECT"
  ELSE IF i.is_websocket_request THEN "WEBSOCKET"
  ELSE "PROXY"

\* The branch run_middleware takes for an intercepted request.
Branch(i) ==
  IF i.is_websocket_request THEN "WEBSOCKET"
  ELSE IF ~i.is_gateway_host THEN "REDIRECT"
  ELSE "PROXY"

\* FILTERED -> PASS | REDIRECT | PROXY | WEBSOCKET | ERROR:
\* _parse_request_intercept_info and the dispatch that follows it
Dispatch ==
  /\ pc = "FILTERED"
  /\ \E cb_route \in RouteCallbacks, cb_method \in MethodCallbacks,
        cb_protocol \in ProtocolCallbacks, request_rejected \in BOOLEAN :
       \E r \in {_parse_request_intercept_info(cb_route, cb_method, cb_protocol, info)} :
          /\ info' = r.info
          /\ calls' = [calls EXCEPT !.parse_url_from_route = r.route_call,
                                    !.parse_method = r.method_call,
                                    !.parse_protocol = r.protocol_call]
          /\ IF r.threw
             THEN Catch("_parse_request_intercept_info") /\ UNCHANGED <<upstream, next_calls>>
             ELSE IF ~r.info.is_gateway_intercept
             THEN /\ next_calls' = Append(next_calls,
                                          NextCall("run_middleware", "none", NoError))
                  /\ returned' = NextResult(Len(next_calls) + 1)
                  /\ pc' = "PASS"
                  /\ UNCHANGED <<events, res_log, upstream, thrown>>
             ELSE CASE Branch(r.info) = "WEBSOCKET" ->
                         create_websocket_proxy(r.info, request_rejected)
                    [] Branch(r.info) = "REDIRECT" -> SendRedirect(r.info)
                    [] OTHER -> send_proxy_request(r.info, request_rejected)
  /\ UNCHANGED <<gateway, req, filter_call, tunnel, followed, codec_vars>>

\* The response was started: its status line and headers are written.
HeadersSent == res_log /= <<>>

\* The 'error' listener create_proxy_request puts on the upstream request:
\* this.emit('error', err), then _handle_proxy_request_error. The upstream
\* request emits 'error' when it cannot connect and also when its connection
\* breaks after the 'response' event. res.sendStatus throws
\* ERR_HTTP_HEADERS_SENT, inside the listener, when the response was started.
ProxyRequestError ==
  /\ upstream.state \in {"open", "responded"}
  /\ \E code \in (IF upstream.state = "open" THEN ErrorCodes ELSE MidStreamErrorCodes) :
       \E originalCode \in {OriginalCode(code)} :
       \E status \in {map_dns_status_to_http_code(originalCode)} :
          /\ events' = events \o <<ErrorEvent("proxy_request")>>
                         \o (IF status = 500
                             THEN <<LogEvent("ERROR", "_handle_proxy_request_error")>>
                             ELSE <<>>)
          /\ IF info.is_websocket_request
             THEN /\ res_log' = IF HeadersSent THEN res_log
                                ELSE Append(res_log,
                                            SendStatus(status, "_handle_proxy_request_error"))
                  /\ thrown' = IF HeadersSent THEN "_handle_proxy_request_error"
                               ELSE thrown
                  /\ UNCHANGED next_calls
             ELSE /\ next_calls' = Append(next_calls,
                       NextCall("_handle_proxy_request_error", "error",
                                ForwardedError(status, originalCode)))
                  /\ UNCHANGED <<res_log, thrown>>
          /\ upstream' = [upstream EXCEPT !.state = "error", !.error_code = code]
  /\ UNCHANGED <<gateway, req, pc, info, calls, filter_call, returned,
                 tunnel, followed, codec_vars>>

----------------------------------------------------------------------------
(* Websocket tunnel: the upstream request's events and the two sockets *)

CRLF == "\r\n"
STATUS_LINE_101 == "HTTP/1.1 101 Switching Protocols"

\* A value of http.IncomingMessage.headers: a string, or an array of strings
\* (Node keeps set-cookie as an array).
Scalar(v) == [is_array |-> FALSE, values |-> <<v>>]
ArrayOf(vs) == [is_array |-> TRUE, values |-> vs]
Header(key, value) == [key |-> key, value |-> value]

\* Text is a sequence of tokens; a line is the tokens it concatenates.
\* lines.join('\r\n')
RECURSIVE Join(_)
Join(lines) ==
  IF lines = <<>> THEN <<>>
  ELSE IF Len(lines) = 1 THEN lines[1]
  ELSE lines[1] \o <<CRLF>> \o Join(Tail(lines))

\* ov.forEach((v) => { lines.push(key + ': ' + value[i]) }): neither value
\* nor i is declared, so the callback throws a ReferenceError at the first
\* element and no line is pushed.
ArrayHeaderLines(h) == [threw |-> h.value.values /= <<>>, lines |-> <<>>]

\* if (Array.isArray(ov)) ...; else lines.push(key + ': ' + ov)
HeaderLines(h) ==
  IF h.value.is_array THEN ArrayHeaderLines(h)
  ELSE [threw |-> FALSE, lines |-> << <<h.key, ": ", h.value.values[1]>> >>]

\* for (let key of Object.keys(v)) ...: [threw, lines]
RECURSIVE ObjectLines(_, _)
ObjectLines(headers, lines) ==
  IF headers = <<>> THEN [threw |-> FALSE, lines |-> lines]
  ELSE IF HeaderLines(Head(headers)).threw THEN [threw |-> TRUE, lines |-> lines]
  ELSE ObjectLines(Tail(headers), lines \o HeaderLines(Head(headers)).lines)

\* create_websocket_socket_header('HTTP/1.1 101 Switching Protocols',
\* proxy_rsp.headers): [threw, text]
SocketHeader(serialised) ==
  [threw |-> serialised.threw,
   text |-> Join(serialised.lines) \o <<CRLF, CRLF>>]

create_websocket_socket_header(status_line, headers) ==
  SocketHeader(ObjectLines(headers, << <<status_line>> >>))

\* Mutant: proxy_head is not put back.
unshift_dropped(proxy_head, buffer) == buffer

\* if (proxy_head && proxy_head.length) proxy_socket.unshift(proxy_head)
unshift(proxy_head, buffer) ==
  IF proxy_head /= <<>> THEN proxy_head \o buffer ELSE buffer

\* The sockets of one request. client/proxy: "open", "ended" (end() was
\* called on it), "closed" ('close' was emitted); proxy is "none" until the
\* upstream hands its socket over. close_events holds the 'close' events whose
\* listeners have not run yet.
NoTunnel ==
  [client |-> "open", client_end_emitted |-> FALSE, proxy |-> "none",
   headers |-> <<>>, head |-> <<>>, client_close_listener |-> FALSE,
   proxy_close_listener |-> FALSE, close_events |-> {}, piped |-> FALSE,
   handler_threw |-> FALSE, header_written |-> FALSE,
   buffer |-> <<>>, sent |-> <<>>, written |-> <<>>]

\* What reaches the client socket: the synthesized header, payload bytes.
HeaderChunk(text) == [kind |-> "header", text |-> text, byte |-> 0]
PayloadChunk(byte) == [kind |-> "payload", text |-> <<>>, byte |-> byte]

\* Upstream header sets: none, scalar values only, one array value.
UpgradeHeaders ==
  {<<>>,
   <<Header("upgrade", Scalar("websocket")), Header("connection", Scalar("Upgrade"))>>,
   <<Header("upgrade", Scalar("websocket")),
     Header("set-cookie", ArrayOf(<<"a=1", "b=2">>))>>}

\* Upstream payload bytes are numbered in the order the upstream sends them;
\* at most MaxPayload of them are sent, those of proxy_head included.
MaxPayload == 2
ProxyHeads == {<<>>, <<1>>}

\* The 'upgrade' listener of create_websocket_proxy, as far as it gets: the
\* error listener, unshift, both close listeners, the socket options, then
\* client_socket.write(create_websocket_socket_header(...)) and the pipes. An
\* exception of the header serialiser leaves the handler before the write and
\* the pipes.
UpgradedTunnel(t, headers, proxy_head, header) ==
  [t EXCEPT !.proxy = "open",
            !.headers = headers,
            !.head = proxy_head,
            !.buffer = unshift(proxy_head, @),
            !.sent = proxy_head,
            !.proxy_close_listener = TRUE,
            !.client_close_listener = TRUE,
            !.handler_threw = header.threw,
            !.header_written = ~header.threw,
            !.written = IF header.threw \/ t.client /= "open" THEN @
                        ELSE Append(@, HeaderChunk(header.text)),
            !.piped = ~header.threw]

\* ws_request.on('upgrade', (proxy_rsp, proxy_socket, proxy_head) => ...)
Upgrade ==
  /\ upstream.state = "open"
  /\ upstream.websocket
  /\ \E headers \in UpgradeHeaders, proxy_head \in ProxyHeads :
       tunnel' = UpgradedTunnel(tunnel, headers, proxy_head,
                                create_websocket_socket_header(STATUS_LINE_101, headers))
  /\ upstream' = [upstream EXCEPT !.state = "upgraded"]
  /\ UNCHANGED <<gateway, req, pc, info, calls, filter_call, next_calls, res_log,
                 events, returned, thrown, followed, codec_vars>>

\* Writes of the response handlers.
WriteHead(at) == [kind |-> "writeHead", status |-> 0, location |-> <<>>, at |-> at]
Send(body, at) ==
  [kind |-> "send", status |-> 200, location |-> <<>>, at |-> at, body |-> body]

\* Mutant: the denial is not logged.
WebsocketResponseSilent(upgrade) ==
  IF upgrade = TRUE
  THEN [events |-> <<>>, res |-> <<WriteHead("create_websocket_proxy")>>]
  ELSE [events |-> <<>>, res |-> <<Send("denied", "create_websocket_proxy")>>]

\* ws_request.on('response', (proxy_rsp) => ...): [events, res]
WebsocketResponse(upgrade) ==
  IF upgrade = TRUE
  THEN [events |-> <<>>, res |-> <<WriteHead("create_websocket_proxy")>>]
  ELSE [events |-> <<LogEvent("WARN", "create_websocket_proxy")>>,
        res |-> <<Send("denied", "create_websocket_proxy")>>]

\* The upstream request's 'response' event: the listener of
\* create_websocket_proxy for a websocket request, the handle_response of
\* send_proxy_request otherwise (res.writeHead and the pipe to res).
UpstreamResponse ==
  /\ upstream.state = "open"
  /\ \E upgrade \in (IF upstream.websocket THEN BOOLEAN ELSE {FALSE}) :
       \E r \in {IF upstream.websocket THEN WebsocketResponse(upgrade)
                 ELSE [events |-> <<>>, res |-> <<WriteHead("send_proxy_request")>>]} :
          /\ events' = events \o r.events
          /\ res_log' = res_log \o r.res
          /\ upstream' = [upstream EXCEPT !.state = "responded",
                                          !.response = IF upgrade THEN "upgrade"
                                                       ELSE "no upgrade"]
  /\ UNCHANGED <<gateway, req, pc, info, calls, filter_call, next_calls, returned,
                 thrown, tunnel, followed, codec_vars>>

\* The upstream sends a payload byte: it waits in the proxy socket's buffer.
UpstreamData ==
  /\ tunnel.proxy = "open"
  /\ Len(tunnel.sent) < MaxPayload
  /\ tunnel' = [tunnel EXCEPT !.buffer = Append(@, Len(tunnel.sent) + 1),
                              !.sent = Append(@, Len(tunnel.sent) + 1)]
  /\ UNCHANGED <<gateway, req, pc, info, calls, filter_call, next_calls, res_log,
                 events, upstream, returned, thrown, followed, codec_vars>>

\* proxy_socket.pipe(client_socket): the first buffered byte is written to
\* the client socket.
PipeData ==
  /\ tunnel.piped
  /\ tunnel.buffer /= <<>>
  /\ tunnel.client = "open"
  /\ tunnel' = [tunnel EXCEPT !.written = Append(@, PayloadChunk(Head(tunnel.buffer))),
                              !.buffer = Tail(@)]
  /\ UNCHANGED <<gateway, req, pc, info, calls, filter_call, next_calls, res_log,
                 events, upstream, returned, thrown, followed, codec_vars>>

\* The client socket closes: after its 'end' (the client sent FIN) or without
\* it (the connection was reset). 'close' is emitted once, to the listeners
\* registered by then.
ClientClose ==
  /\ pc = "WEBSOCKET"
  /\ tunnel.client \in {"open", "ended"}
  /\ \E end_emitted \in BOOLEAN :
       tunnel' = [tunnel EXCEPT !.client = "closed",
                                !.client_end_emitted = end_emitted,
                                !.close_events =
                                   IF tunnel.client_close_listener
                                   THEN @ \cup {"client"} ELSE @]
  /\ UNCHANGED <<gateway, req, pc, info, calls, filter_call, next_calls, res_log,
                 events, upstream, returned, thrown, followed, codec_vars>>

\* The upstream socket closes.
ProxyClose ==
  /\ tunnel.proxy \in {"open", "ended"}
  /\ tunnel' = [tunnel EXCEPT !.proxy = "closed",
                              !.close_events =
                                 IF tunnel.proxy_close_listener
                                 THEN @ \cup {"proxy"} ELSE @]
  /\ UNCHANGED <<gateway, req, pc, info, calls, filter_call, next_calls, res_log,
                 events, upstream, returned, thrown, followed, codec_vars>>

\* socket.end() on a socket that is still open
End(socket) == IF socket = "open" THEN "ended" ELSE socket

\* client_socket.on('close', () => { proxy_socket.end() })
ClientCloseListener ==
  /\ "client" \in tunnel.close_events
  /\ tunnel' = [tunnel EXCEPT !.proxy = End(@), !.close_events = @ \ {"client"}]
  /\ UNCHANGED <<gateway, req, pc, info, calls, filter_call, next_calls, res_log,
                 events, upstream, returned, thrown, followed, codec_vars>>

\* proxy_socket.on('close', () => { client_socket.end() })
ProxyCloseListener ==
  /\ "proxy" \in tunnel.close_events
  /\ tunnel' = [tunnel EXCEPT !.client = End(@), !.close_events = @ \ {"proxy"}]
  /\ UNCHANGED <<gateway, req, pc, info, calls, filter_call, next_calls, res_log,
                 events, upstream, returned, thrown, followed, codec_vars>>

\* client_socket.pipe(proxy_socket): the pipe ends its destination when the
\* source emits 'end', or on the next tick when it had emitted 'end' before
\* the pipe was set up.
PipeEnd ==
  /\ tunnel.piped
  /\ tunnel.client_end_emitted
  /\ tunnel.proxy = "open"
  /\ tunnel' = [tunnel EXCEPT !.proxy = End(@)]
  /\ UNCHANGED <<gateway, req, pc, info, calls, filter_call, next_calls, res_log,
                 events, upstream, returned, thrown, followed, codec_vars>>

----------------------------------------------------------------------------
(* The gateway handling one request *)

Init ==
  /\ gateway \in Gateways
  /\ req \in Requests
  /\ pc = "ENTRY"
  /\ info = GatewayRequestInfo
  /\ calls = NoCalls
  /\ filter_call = NoFilter
  /\ next_calls = <<>>
  /\ res_log = <<>>
  /\ events = <<>>
  /\ upstream = NoUpstream
  /\ returned = JSReturnUndefined
  /\ thrown = "none"
  /\ tunnel = NoTunnel
  /\ followed = NotFollowed
  /\ codec_pc = "idle"
  /\ codec_in = <<>>
  /\ codec_enc = <<>>
  /\ codec_dec = <<>>

\* run_middleware and the upstream request's 'error' and 'response' events.
Next == Classify \/ Filter \/ Dispatch \/ ProxyRequestError \/ UpstreamResponse

Spec == Init /\ [][Next]_vars

----------------------------------------------------------------------------
(* The websocket tunnel of one request *)

\* Requests over http to the gateway's own host and to a host that encodes a
\* target, websocket upgrades among them, on a gateway with the default
\* protocol options.
InitTunnel ==
  /\ Init
  /\ gateway.force_protocol = Null
  /\ gateway.force_http
  /\ req.protocol = HTTP
  /\ req.headers.sec_websocket_protocol = "undefined"
  /\ req.headers.host \in
       {Str(<<"h">>),
        Str(<<"b", ".", "e", "0", "5", "8", ".", "8", ".">>) \o GATEWAY_PROXY
          \o Str(<<".", "h">>)}

NextTunnel ==
  \/ Next
  \/ Upgrade \/ UpstreamData \/ PipeData
  \/ ClientClose \/ ProxyClose \/ ClientCloseListener \/ ProxyCloseListener
  \/ PipeEnd

\* The listeners and the pipes run once their event has happened; nothing
\* obliges the client or the upstream to send, to answer or to close.
SpecTunnel ==
  /\ InitTunnel
  /\ [][NextTunnel]_vars
  /\ WF_vars(ClientCloseListener)
  /\ WF_vars(ProxyCloseListener)
  /\ WF_vars(PipeEnd)
  /\ WF_vars(PipeData)

----------------------------------------------------------------------------
(* A redirect and the request that follows it *)

\* The request a client makes to follow a redirect to `target`: a plain GET
\* over the target's scheme, its Host the target's authority, its url the
\* target's path and query.
FollowingRequest(target) ==
  [protocol |-> Substr(target.protocol, 0, Len(target.protocol) - 1),
   method |-> "GET",
   originalUrl |-> target.pathname \o target.search,
   baseUrl |-> <<>>,
   headers |-> [host |-> URLHost(target),
                upgrade |-> "undefined",
                sec_websocket_protocol |-> "undefined"]]

\* REDIRECT -> ENTRY: the client follows the Location that res.redirect
\* sent, and run_middleware starts over on the new request.
FollowRedirect ==
  /\ pc = "REDIRECT"
  /\ ~followed.done
  /\ \E target \in {ParseURL(res_log[Len(res_log)].location)} :
       /\ target.ok
       /\ target.url.protocol \in {HTTP \o <<58>>, HTTPS \o <<58>>}
       /\ req' = FollowingRequest(target.url)
  /\ followed' = [done |-> TRUE, target_id |-> info.target_id,
                  location |-> res_log[Len(res_log)].location]
  /\ pc' = "ENTRY"
  /\ info' = GatewayRequestInfo
  /\ calls' = NoCalls
  /\ filter_call' = NoFilter
  /\ next_calls' = <<>>
  /\ res_log' = <<>>
  /\ upstream' = NoUpstream
  /\ returned' = JSReturnUndefined
  /\ thrown' = "none"
  /\ UNCHANGED <<gateway, events, tunnel, codec_vars>>

\* Plain requests over http to the gateway's own host, for "/x?q" and for a
\* path that names the target "b.e058.c", on a gateway with the default
\* protocol options.
FollowedPaths ==
  {Str(<<"/", "x", "?", "q">>),
   Str(<<"/", "b", ".", "e", "0", "5", "8", ".", "c", "/", "y">>)}

InitFollow ==
  /\ gateway \in {g \in Gateways : g.force_protocol = Null /\ g.force_http}
  /\ req \in [protocol : {HTTP},
              method : {"GET"},
              originalUrl : FollowedPaths,
              baseUrl : {<<>>},
              headers : [host : {Str(<<"h">>)},
                         upgrade : {"undefined"},
                         sec_websocket_protocol : {"undefined"}]]
  /\ pc = "ENTRY"
  /\ info = GatewayRequestInfo
  /\ calls = NoCalls
  /\ filter_call = NoFilter
  /\ next_calls = <<>>
  /\ res_log = <<>>
  /\ events = <<>>
  /\ upstream = NoUpstream
  /\ returned = JSReturnUndefined
  /\ thrown = "none"
  /\ tunnel = NoTunnel
  /\ followed = NotFollowed
  /\ codec_pc = "idle"
  /\ codec_in = <<>>
  /\ codec_enc = <<>>
  /\ codec_dec = <<>>

NextFollow == Next \/ FollowRedirect

SpecFollow == InitFollow /\ [][NextFollow]_vars

----------------------------------------------------------------------------
(* The codec applied to arbitrary strings *)

\* Strings of at most MaxLen code units over '.', 'e', '5' (safe) and ':'
\* (escaped).
MaxLen == 6
CodecAlphabet == {46, 101, 53, 58}
CodecStrings == UNION {[1..n -> CodecAlphabet] : n \in 0..MaxLen}

InitCodec ==
  /\ gateway \in {g \in Gateways : g.gateway_host = Null /\ g.force_protocol = Null /\ g.force_http}
  /\ req \in {r \in Requests : r.protocol = HTTP /\ r.headers.host = Undefined
                               /\ r.headers.upgrade = "undefined"
                               /\ r.headers.sec_websocket_protocol = "undefined"}
  /\ pc = "idle"
  /\ info = GatewayRequestInfo
  /\ calls = NoCalls
  /\ filter_call = NoFilter
  /\ next_calls = <<>>
  /\ res_log = <<>>
  /\ events = <<>>
  /\ upstream = NoUpstream
  /\ returned = JSReturnUndefined
  /\ thrown = "none"
  /\ tunnel = NoTunnel
  /\ followed = NotFollowed
  /\ codec_pc = "input"
  /\ codec_in \in CodecStrings
  /\ codec_enc = <<>>
  /\ codec_dec = <<>>

Encode ==
  /\ codec_pc = "input"
  /\ codec_enc' = encode_hostname(codec_in)
  /\ codec_pc' = "encoded"
  /\ UNCHANGED <<codec_in, codec_dec, gateway_vars>>

Decode ==
  /\ codec_pc = "encoded"
  /\ codec_dec' = decode_hostname(codec_enc)
  /\ codec_pc' = "decoded"
  /\ UNCHANGED <<codec_in, codec_enc, gateway_vars>>

NextCodec == Encode \/ Decode

SpecCodec == InitCodec /\ [][NextCodec]_vars

----------------------------------------------------------------------------
(* Properties *)

\* What the state records of the request's handling.
Phase1Ran == info.gateway_domain_postfix /= Null
Phase2Ran ==
  \/ info.is_gateway_intercept
  \/ calls.parse_url_from_route.called
  \/ calls.parse_method.called
  \/ calls.parse_protocol.called
\* Phase 2 returned and left is_gateway_intercept true: its last callback,
\* parse_protocol, returned.
Phase2Intercepted ==
  /\ info.is_gateway_intercept
  /\ calls.parse_protocol.called
  /\ ~calls.parse_protocol.threw
Redirects == {k \in 1..Len(res_log) : res_log[k].kind = "redirect"}
WebsocketDispatched == pc = "WEBSOCKET"
ProxyDispatched == pc = "PROXY" \/ thrown = "send_proxy_request"
RedirectSent == pc = "REDIRECT" /\ Cardinality(Redirects) = 1
NothingDispatched ==
  /\ ~WebsocketDispatched
  /\ ~ProxyDispatched
  /\ Redirects = {}
  /\ upstream.state = "none"

\* C1: an intercepted request takes exactly one branch: the websocket tunnel
\* when it is a websocket request (gateway host or not, and never a
\* redirect), otherwise a redirect with no upstream request when the host is
\* not a gateway host, otherwise the HTTP proxy.
C1_BranchPriority ==
  Phase2Intercepted =>
    /\ info.is_websocket_request =>
         WebsocketDispatched /\ ~ProxyDispatched /\ Redirects = {}
    /\ (~info.is_websocket_request /\ ~info.is_gateway_host) =>
         /\ RedirectSent /\ ~ProxyDispatched /\ ~WebsocketDispatched
         /\ upstream.state = "none"
    /\ (~info.is_websocket_request /\ info.is_gateway_host) =>
         ProxyDispatched /\ ~WebsocketDispatched /\ Redirects = {}

\* A websocket request to a host that is no gateway host got its tunnel.
C1_Witness ==
  /\ Phase2Intercepted
  /\ info.is_websocket_request
  /\ ~info.is_gateway_host
  /\ pc = "WEBSOCKET"
  /\ upstream.state = "open"

FilterVetoed ==
  /\ filter_call.present
  /\ ~filter_call.threw
  /\ filter_call.ret = "false"
  /\ ~filter_call.calls_next

\* C2: a filter that returns false without calling next passes the request
\* on: Phase 1 ran, next() was invoked exactly once with no arguments, Phase 2
\* never ran and nothing was dispatched.
C2_VetoPasses ==
  FilterVetoed =>
    /\ pc = "PASS"
    /\ Phase1Ran
    /\ next_calls = <<NextCall("run_middleware", "none", NoError)>>
    /\ ~Phase2Ran
    /\ NothingDispatched
    /\ res_log = <<>>

C2_Witness == FilterVetoed /\ pc = "PASS" /\ Len(next_calls) = 1

FilterConsumed ==
  /\ filter_call.present
  /\ ~filter_call.threw
  /\ filter_call.calls_next

\* C3: when the filter invoked the next handed to it and returned (false
\* included), run_middleware returns that call's result, does not invoke next
\* itself, runs no Phase 2 and dispatches nothing: next was invoked once.
C3_FilterNextReplaces ==
  FilterConsumed =>
    /\ pc = "PASS"
    /\ Len(next_calls) = 1
    /\ next_calls[1].by = "filter"
    /\ returned = NextResult(1)
    /\ ~Phase2Ran
    /\ NothingDispatched
    /\ res_log = <<>>

C3_Witness == FilterConsumed /\ filter_call.ret = "false" /\ pc = "PASS"

RouteReturnedNull ==
  /\ calls.parse_url_from_route.called
  /\ ~calls.parse_url_from_route.threw
  /\ calls.parse_url_from_route.ret = JSNull

\* C4: when the host is no gateway host and parse_url_from_route returned
\* null, is_gateway_intercept ends false, next() is invoked and nothing is
\* dispatched, for websocket requests too.
C4_PassThroughSafety ==
  (RouteReturnedNull /\ ~info.is_gateway_host) =>
    /\ ~info.is_gateway_intercept
    /\ pc = "PASS"
    /\ next_calls = <<NextCall("run_middleware", "none", NoError)>>
    /\ NothingDispatched
    /\ res_log = <<>>

C4_Witness ==
  /\ RouteReturnedNull
  /\ ~info.is_gateway_host
  /\ info.is_websocket_request
  /\ pc = "PASS"

\* C5: decode_hostname(encode_hostname(s)) = s for every string s over code
\* units 0..999, strings of safe characters holding ".e<3 digits>." included.
C5_RoundTrip == codec_pc = "decoded" => codec_dec = codec_in

\* The URL parse_url_from_route handed back, as a URL object.
RouteURL == CoerceURL(calls.parse_url_from_route.ret).url
\* The gateway host: the configured one or, unset, what follows the last
\* ".<subdomain>." of Host, or the whole Host.
ExpectedGatewayHost ==
  IF gateway.gateway_host /= Null THEN gateway.gateway_host
  ELSE IF LastIndexOf(req.headers.host, <<46>> \o gateway.gateway_subdomain \o <<46>>) = 0 - 1
       THEN req.headers.host
       ELSE SubstrFrom(req.headers.host,
                       LastIndexOf(req.headers.host,
                                   <<46>> \o gateway.gateway_subdomain \o <<46>>)
                       + Len(gateway.gateway_subdomain) + 2)

\* C6: the redirect is a 302 to
\* scheme://encode(target_id).<gateway_subdomain>.<gateway_host><path><query>
\* with target_id the host (with port) of the URL parse_url_from_route
\* returned, and scheme, path and query those of backend_url.
C6_RedirectLocation ==
  pc = "REDIRECT" =>
    /\ Len(res_log) = 1
    /\ res_log[1].kind = "redirect"
    /\ res_log[1].status = 302
    /\ res_log[1].location =
         info.backend_url.protocol \o Str(<<"/", "/">>)
         \o encode_hostname(URLHost(RouteURL))
         \o Str(<<".">>) \o gateway.gateway_subdomain
         \o Str(<<".">>) \o ExpectedGatewayHost
         \o info.backend_url.pathname \o info.backend_url.search

\* A redirect whose target id holds a character the codec escapes, with the
\* gateway host auto-detected.
C6_Witness ==
  /\ pc = "REDIRECT"
  /\ gateway.gateway_host = Null
  /\ \E k \in 1..Len(URLHost(RouteURL)) : IsEscaped(URLHost(RouteURL)[k])

\* C7: an exception raised anywhere while handling a request leads to ERROR:
\* an 'error' event, an ERROR 'log' event and a 500 response.
C7_ExceptionsAnswered ==
  thrown /= "none" =>
    /\ pc = "ERROR"
    /\ \E k \in 1..Len(events) : events[k].event = "error"
    /\ \E k \in 1..Len(events) : events[k].event = "log" /\ events[k].level = "ERROR"
    /\ \E k \in 1..Len(res_log) :
         res_log[k].kind = "sendStatus" /\ res_log[k].status = 500

\* The upstream request emitted 'error' before it answered.
UpstreamErrored == upstream.state = "error" /\ upstream.response = "none"
LastNext == next_calls[Len(next_calls)]
LastResponse == res_log[Len(res_log)]

C9_ForceHttp ==
  (/\ gateway.force_http
   /\ Phase2Intercepted
   /\ calls.parse_protocol.impl = "default") =>
    info.backend_url.protocol \in {HTTP \o <<58>>, WS \o <<58>>}

\* The status the gateway surfaced for the upstream error.
SurfacedStatus ==
  IF info.is_websocket_request THEN LastResponse.status ELSE LastNext.err.statusCode
\* Inputs of the map beyond the codes upstream errors carry.
MapInputs == ErrorCodes \cup {"null", "[unknown]", "NOTFOUND", "EAI_AGAIN", ""}
ExpectedStatus(c) ==
  IF c = "ENOTFOUND" THEN 404
  ELSE IF c \in {"EREFUSED", "ECANCELLED", "ECONNREFUSED"} THEN 403
  ELSE 500

\* C10: map_dns_status_to_http_code is total into {403, 404, 500}: NOTFOUND
\* gives 404; REFUSED, CANCELLED and CONNREFUSED give 403; anything else,
\* null, undefined and '[unknown]' included, gives 500.
C10_DnsMapTotal ==
  /\ \A c \in MapInputs :
       /\ map_dns_status_to_http_code(c) \in {403, 404, 500}
       /\ map_dns_status_to_http_code(c) = ExpectedStatus(c)
  /\ UpstreamErrored =>
       SurfacedStatus = ExpectedStatus(OriginalCode(upstream.error_code))

C10_Witness ==
  /\ UpstreamErrored
  /\ upstream.error_code = "ECONNREFUSED"
  /\ SurfacedStatus = 403

\* The header text the client is to receive: the status line, then one
\* 'Key: Value' line per scalar header and one per element of an array
\* header, each line followed by CRLF, then a blank line.
RECURSIVE ElementLines(_, _)
ElementLines(key, values) ==
  IF values = <<>> THEN <<>>
  ELSE <<key, ": ", Head(values), CRLF>> \o ElementLines(key, Tail(values))
RECURSIVE ExpectedHeaderLines(_)
ExpectedHeaderLines(headers) ==
  IF headers = <<>> THEN <<>>
  ELSE ElementLines(Head(headers).key, Head(headers).value.values)
       \o ExpectedHeaderLines(Tail(headers))
ExpectedUpgradeText(headers) ==
  <<STATUS_LINE_101, CRLF>> \o ExpectedHeaderLines(headers) \o <<CRLF>>

\* C11: on the upstream 'upgrade' event the handler completes without
\* throwing and the client, while its socket is open, has received first the
\* synthesized 101 response: the status line, a line per scalar header and a
\* line per element of an array header, CRLF between them and a blank line at
\* the end.
C11_UpgradeHeaderSent ==
  (upstream.state = "upgraded" /\ tunnel.client = "open") =>
    /\ ~tunnel.handler_threw
    /\ tunnel.written /= <<>>
    /\ tunnel.written[1] = HeaderChunk(ExpectedUpgradeText(tunnel.headers))

UpstreamDenied ==
  /\ upstream.state = "responded"
  /\ upstream.websocket
  /\ upstream.response = "no upgrade"

\* C12: when the upstream of a websocket request answers with a response that
\* is no upgrade, a WARN 'log' event is emitted and 'denied' is sent to the
\* client; no socket is spliced and next is not invoked.
C12_DeniedResponse ==
  UpstreamDenied =>
    /\ \E k \in 1..Len(events) : events[k].event = "log" /\ events[k].level = "WARN"
    /\ res_log /= <<>>
    /\ LastResponse.kind = "send"
    /\ LastResponse.body = "denied"
    /\ tunnel.proxy = "none"
    /\ ~tunnel.piped
    /\ tunnel.written = <<>>
    /\ next_calls = <<>>

C12_Witness ==
  /\ UpstreamDenied
  /\ info.is_gateway_host
  /\ Len(res_log) = 1
  /\ res_log[1] = Send("denied", "create_websocket_proxy")

\* The filter returned something other than false and left next alone.
FilterLetsThrough ==
  /\ filter_call.present
  /\ ~filter_call.threw
  /\ ~filter_call.calls_next
  /\ filter_call.ret /= "false"

Phase2Returned ==
  /\ pc \in {"PASS", "REDIRECT", "PROXY", "WEBSOCKET", "ERROR"}
  /\ thrown \notin {"_parse_request_core_info", "request_filter",
                    "_parse_request_intercept_info"}

\* C14: after Phase 2 returns, is_gateway_intercept = true implies that
\* backend_url and target_method are not null, and a null backend_url implies
\* is_gateway_intercept = false, whatever the parser's callbacks return.
C14_InterceptComplete ==
  /\ Phase2Intercepted =>
       /\ ~IsNullish(info.backend_url)
       /\ info.target_method \notin {"null", "undefined"}
  /\ (Phase2Returned /\ IsNullish(info.backend_url)) => ~info.is_gateway_intercept

\* The part of Host that precedes '.' + gateway_domain_postfix; nothing
\* precedes it when Host is the postfix or holds no dot before it.
LabelBeforePostfix ==
  IF EndsWith(req.headers.host, <<46>> \o info.gateway_domain_postfix)
  THEN SubSeq(req.headers.host, 1,
              Len(req.headers.host) - Len(info.gateway_domain_postfix) - 1)
  ELSE <<>>

\* Classification ended and the request was dispatched.
Dispatched ==
  \/ pc \in {"REDIRECT", "PROXY", "WEBSOCKET"}
  \/ thrown = "send_proxy_request"

\* C15: a request with is_gateway_host = true ends classification with
\* target_id = decode_hostname(the part of Host before '.' + postfix) and a
\* backend_url that parse_url_from_id produced for it, parse_url_from_route
\* never invoked; also when Host is the postfix itself.
C15_HostModeIdentity ==
  (info.is_gateway_host /\ Dispatched) =>
    /\ info.target_id = decode_hostname(LabelBeforePostfix)
    /\ calls.parse_url_from_id.called
    /\ ~calls.parse_url_from_route.called
    /\ info.backend_url.hostname = CoerceURL(calls.parse_url_from_id.ret).url.hostname

\* The occurrences (1-based) of '.' + gateway_subdomain + '.' in Host.
SubdomainOccurrences ==
  {k \in 1..Len(req.headers.host) :
     MatchesAt(req.headers.host, k, <<46>> \o gateway.gateway_subdomain \o <<46>>)}

\* C16: with gateway_host unset, the gateway host is what follows the last
\* '.' + gateway_subdomain + '.' of Host, or the whole Host when there is
\* none; is_gateway_host is true exactly when Host holds an occurrence, and
\* Phase 1 then leaves target_id = decode_hostname(what precedes the last
\* occurrence).
C16_AutoDetect ==
  (gateway.gateway_host = Null /\ Phase1Ran) =>
    /\ info.is_gateway_host <=> SubdomainOccurrences /= {}
    /\ SubdomainOccurrences = {} =>
         info.gateway_domain_postfix =
           gateway.gateway_subdomain \o <<46>> \o req.headers.host
    /\ \A k \in SubdomainOccurrences :
         (\A j \in SubdomainOccurrences : j <= k) =>
           /\ info.gateway_domain_postfix =
                gateway.gateway_subdomain \o <<46>>
                \o SubSeq(req.headers.host, k + Len(gateway.gateway_subdomain) + 2,
                          Len(req.headers.host))
           /\ pc = "CLASSIFIED" =>
                info.target_id = decode_hostname(SubSeq(req.headers.host, 1, k - 1))

\* A Host that holds the subdomain twice was split at the second occurrence.
C16_Witness ==
  /\ gateway.gateway_host = Null
  /\ pc = "CLASSIFIED"
  /\ Cardinality(SubdomainOccurrences) = 2
  /\ info.is_gateway_host
  /\ info.target_id = Str(<<"b", ".">>) \o GATEWAY_PROXY \o Str(<<".", "c">>)

\* The URL the parser resolved for the request, as a URL object.
SourceURL ==
  IF info.is_gateway_host THEN CoerceURL(calls.parse_url_from_id.ret).url ELSE RouteURL

\* path without its last '/.websocket'; the path of a URL is never empty.
WithoutLastSegment(path) ==
  IF Len(path) = Len(DOT_WEBSOCKET) THEN <<47>>
  ELSE SubSeq(path, 1, Len(path) - Len(DOT_WEBSOCKET))

\* C17: for an intercepted request, backend_url's path is the resolved path
\* without one trailing '/.websocket' when the request is a websocket request
\* and the path ends with it, and is the resolved path unchanged otherwise;
\* the query is never touched.
C17_WebsocketPathStrip ==
  Phase2Intercepted =>
    /\ info.backend_url.search = SourceURL.search
    /\ info.backend_url.pathname =
         IF info.is_websocket_request /\ EndsWith(SourceURL.pathname, DOT_WEBSOCKET)
         THEN WithoutLastSegment(SourceURL.pathname)
         ELSE SourceURL.pathname

\* A websocket request whose resolved path ended with two '/.websocket' lost
\* one of them.
C17_Witness ==
  /\ Phase2Intercepted
  /\ info.is_websocket_request
  /\ SourceURL.pathname = Str(<<"/", "a">>) \o DOT_WEBSOCKET \o DOT_WEBSOCKET
  /\ info.backend_url.pathname = Str(<<"/", "a">>) \o DOT_WEBSOCKET
  /\ info.backend_url.search = Str(<<"?", "q">>)

\* The headers of the upstream request, once it was created.
UpstreamCreated == upstream.state /= "none"

\* C18: the upstream request's Host header is cleared when the client's Host
\* ends with backend_url.host and is the client's Host otherwise; the other
\* headers are the client's, and the request's own headers never change.
C18_HostRewrite ==
  /\ [](UpstreamCreated =>
          /\ upstream.options.headers.host =
               (IF EndsWith(req.headers.host, URLHost(info.backend_url))
                THEN Null ELSE req.headers.host)
          /\ upstream.options.headers.upgrade = req.headers.upgrade
          /\ upstream.options.headers.sec_websocket_protocol =
               req.headers.sec_websocket_protocol)
  /\ [][req' = req]_vars

\* A request whose Host ends with the backend's host went upstream without it.
C18_Witness ==
  /\ UpstreamCreated
  /\ EndsWith(req.headers.host, URLHost(info.backend_url))
  /\ upstream.options.headers.host = Null
  /\ req.headers.host /= Null

\* C19: whatever reaches the client socket of a tunnel starts with the
\* synthesized 101 header; the payload follows it in the order the upstream
\* sent it, the bytes of proxy_head first.
C19_HeaderBeforePayload ==
  /\ tunnel.written /= <<>> =>
       /\ tunnel.written[1].kind = "header"
       /\ tunnel.written[1].text[1] = STATUS_LINE_101
  /\ \A k \in 2..Len(tunnel.written) :
       /\ tunnel.written[k].kind = "payload"
       /\ k - 1 <= Len(tunnel.sent)
       /\ tunnel.written[k].byte = tunnel.sent[k - 1]
  /\ (Len(tunnel.written) >= 2 /\ tunnel.head /= <<>>) =>
       tunnel.written[2].byte = tunnel.head[1]

\* The client got the header, the byte of proxy_head, then a later byte.
C19_Witness ==
  /\ Len(tunnel.written) = 3
  /\ tunnel.head = <<1>>
  /\ tunnel.written[2] = PayloadChunk(1)
  /\ tunnel.written[3] = PayloadChunk(2)

ClientClosedInTunnel == tunnel.client = "closed" /\ upstream.state = "upgraded"
ProxyEnded == tunnel.proxy \in {"ended", "closed"}
ClientEnded == tunnel.client \in {"ended", "closed"}

\* C20: in a tunnel, once the client socket has closed, before or after the
\* upstream's upgrade, the upstream socket is eventually ended; once the
\* upstream socket has closed, the client socket is eventually ended.
C20_ClosePropagates ==
  /\ ClientClosedInTunnel ~> ProxyEnded
  /\ (tunnel.proxy = "closed") ~> ClientEnded

\* The upstream request of the HTTP proxy emitted 'error' after its response
\* was written to the client with res.writeHead.
ErroredAfterHeaders ==
  /\ upstream.state = "error"
  /\ upstream.response /= "none"
  /\ ~info.is_websocket_request
  /\ \E k \in 1..Len(res_log) : res_log[k].kind = "writeHead"

\* C21: in the HTTP proxy branch, an upstream error after the response's
\* status and headers were written is only emitted: next(err) is not invoked
\* and no status is sent.
C21_SilentAfterHeaders ==
  ErroredAfterHeaders =>
    /\ \E k \in 1..Len(events) : events[k] = ErrorEvent("proxy_request")
    /\ \A k \in 1..Len(next_calls) : next_calls[k].by /= "_handle_proxy_request_error"
    /\ \A k \in 1..Len(res_log) : res_log[k].kind /= "sendStatus"

\* The gateway wrote to the client: a redirect, a status, the upstream's
\* response, 'denied', or the header of a tunnel.
GatewayAnswered == res_log /= <<>> \/ tunnel.written /= <<>>

\* C22: a request gets one outcome: next is invoked at most once, and a
\* request for which next was invoked gets no response written by the gateway
\* (so a filter that calls next and then throws gets no 500).
C22_OneOutcome ==
  /\ Len(next_calls) <= 1
  /\ ~(next_calls /= <<>> /\ GatewayAnswered)

\* The followed request got through to the dispatch: no filter held it back
\* and the default callbacks classified it.
FollowedThrough ==
  /\ followed.done
  /\ pc \notin {"ENTRY", "CLASSIFIED", "FILTERED"}
  /\ (filter_call.present => FilterLetsThrough)
  /\ calls.parse_url_from_id.impl = "default"
  /\ calls.parse_url_from_route.impl = "default"
  /\ calls.parse_method.impl = "default"
  /\ calls.parse_protocol.impl = "default"

\* C23: when a plain request in route mode was answered with the redirect
\* and the client follows it, the followed request is classified with
\* is_gateway_host = true and the target_id of the redirected request, is
\* never redirected again, and - the filter letting it through - is
\* dispatched to the HTTP proxy.
C23_RedirectThenProxy ==
  /\ (followed.done /\ pc /= "ENTRY") =>
        /\ info.is_gateway_host
        /\ info.target_id = followed.target_id
        /\ pc /= "REDIRECT"
  /\ FollowedThrough => ProxyDispatched


============================================================================
